---------------------------- MODULE Spec2Model ----------------------------
(***************************************************************************)
(* A model of MeasurementControl (modules/measurement/measurement_control  *)
(* .py): the configuration setters, run() and its three acquisition        *)
(* strategies (soft static loop, hard block ingestion, adaptive objective).*)
(*                                                                         *)
(* Encoding.                                                               *)
(*  - A point set is a sequence of points; a point is the sequence of its  *)
(*    components (a scalar x is <<x>>).  A 1-D numpy array [0,1,2] is      *)
(*    << <<0>>, <<1>>, <<2>> >>, an (N,2) array has 2-component points.    *)
(*  - An attribute that has never been assigned is the empty sequence      *)
(*    (point sets, TwoD_array, f_termination = None) or 0 (xlen, ylen).    *)
(*  - The table (self.dset) is a sequence of rows, each of S+V numbers.    *)
(*  - calls is the history of the calls the engine made on the sweep       *)
(*    functions (who = 1..S) and on the detector (who = 0) in the current  *)
(*    run.                                                                 *)
(*  - The file is Python 3 (print(..., end=...) at line 577), so `/` is    *)
(*    true division: an index computed with it is a float, and indexing a  *)
(*    numpy array with a float raises IndexError.                          *)
(*    dset.resize() takes a float row count and truncates it.              *)
(*  - An exception leaves run() through the `with` block, which closes the *)
(*    container; measure() has no handler of its own.                      *)
(*                                                                         *)
(* Four specifications share the actions: Spec (sessions of static runs,   *)
(* soft and hard), SpecSoft (sessions of soft runs, static and adaptive),  *)
(* SpecHard (measure_hard called block after block) and SpecPlot (one long *)
(* soft run with the clock running).  A redraw of the plot monitor does    *)
(* not touch the table, so only SpecPlot follows the clock and the plot    *)
(* monitor; the other three leave them as they are.                        *)
(***************************************************************************)
EXTENDS Integers, Sequences, FiniteSets, TLC

\* ------------------------------------------------------------------ bounds
MaxPts == 3        \* longest inner (1-component) sweep point set
MaxOuter == 2      \* longest outer (2D) sweep point set
MaxRuns == 2       \* run() calls in one session
MaxEvals == 3      \* objective calls the optimizer makes in one run
MaxBlock == 3      \* most rows a hard detector returns from one get_values
MaxIngest == 4     \* measure_hard calls in the block-ingestion harness
MaxPlotRows == 23  \* sweep points of the run whose plot monitor is followed
MaxClock == 5      \* last tick of the clock (one tick is half a second)

\* ------------------------------------------------------------- input sets
Controls == {"soft", "hard"}
StaticModes == {"1D", "2D", "3D"}
SoftModes == {"1D", "2D", "adaptive"}
NoDetector == [control |-> "none", nvals |-> 0]
Detectors == [control : Controls, nvals : 1..2]
SoftDetectors == [control : {"soft"}, nvals : 1..2]
SweepFnLists ==
    { <<"soft">>, <<"hard">>, <<"soft", "soft">>, <<"hard", "hard">>,
      <<"soft", "hard">>, <<"hard", "hard", "hard">> }

\* The inner point set of length n: [0, 1, .., n-1].
InnerSet(n) == [i \in 1..n |-> <<i - 1>>]
\* The outer point set of length n: [10, 20, ..].
OuterSet(n) == [j \in 1..n |-> 10 * j]
\* A caller-supplied, already combined 2-component point set.
PreCombined == << <<0, 10>>, <<1, 20>> >>
PointSets == { InnerSet(n) : n \in 1..MaxPts } \cup { PreCombined }
SoftPointSets == { InnerSet(MaxPts), PreCombined }
OuterSets == { OuterSet(n) : n \in 1..MaxOuter }
FTerminations == { <<>>, <<2>> }
\* Scale factors, as fractions num/den.
One == [num |-> 1, den |-> 1]
Half == [num |-> 1, den |-> 2]
\* x_scale as popped from the mapping: the default 1, the scalar 0.5, the
\* vector [0.5, 1].
DefaultScale == [iter |-> FALSE, by |-> <<One>>]
ScalarHalf == [iter |-> FALSE, by |-> <<Half>>]
VectorScale == [iter |-> TRUE, by |-> <<Half, One>>]
\* What a caller may store under 'adaptive_function': the identifier
\* 'Powell', a plain function, a callable that is no plain function (a bound
\* method, a functools.partial, an object with __call__), another string.
OptimizerKinds == {"Powell", "function", "callable", "string"}
\* The mappings given to set_adaptive_function_parameters.
AdaptivePars ==
    [fn : {"function"}, minimize : BOOLEAN, ft : FTerminations,
     x_scale : {DefaultScale}]
    \cup [fn : OptimizerKinds, minimize : {TRUE}, ft : {<<>>},
          x_scale : {DefaultScale}]
    \cup [fn : {"function"}, minimize : {TRUE}, ft : FTerminations,
          x_scale : {ScalarHalf, VectorScale}]
\* The keys of the mapping a caller hands to set_adaptive_function_parameters.
SuppliedKeys == {"adaptive_function", "x0", "x_scale", "minimize", "f_termination"}
\* The keys the setter pops from the mapping.
PoppedKeys == {"x_scale", "minimize", "f_termination"}
\* The coordinates an optimizer may try, for S sweep functions.
XCandidates(S) == { [i \in 1..S |-> v + i - 1] : v \in 0..2 }

\* ------------------------------------------------------------------ state
VARIABLES
    sweep_functions,       \* sweep_control of each sweep function, in order
    sweep_function_names,  \* self.sweep_function_names
    detector_function,     \* [control, nvals]: detector_control, len(value_names)
    sweep_points,          \* self.sweep_points
    swf_points,            \* self.sweep_functions[0].sweep_points
    sweep_points_2D,       \* self.sweep_points_2D (scalars)
    af_pars,               \* [set, fn, has, kw]: self.af_pars exists; the value last
                           \* stored under 'adaptive_function'; the key is there;
                           \* the other keys in the mapping
    minimize_optimization,
    f_termination,         \* <<>> is None, <<t>> a threshold
    x_scale,               \* [iter, by]: has __iter__; its value(s), each num/den
    xlen, ylen,            \* 0: never assigned
    sweep_pts_x,           \* the inner set measure_2D last expanded
    TwoD_array,            \* <<>>: no attribute; else its shape <<n, m, V>>, all NaN
    mode,
    iteration,             \* [float, num, den]: the number num/den
    complete,              \* "unset", "False", "True"
    pc,                    \* where run() is
    idx,                   \* loop position of the soft loop / the outer hard loop
    dset,                  \* the table
    calls,                 \* calls made on sweep functions and detector this run
    data_object,           \* "closed" / "open": the persistent container
    outcome,               \* "none", "returned", "raised"
    error,                 \* the exception type that left run()
    nruns,
    station,               \* whether self.station has been assigned
    runlog,                \* what run() wrote to the container, in order
    now,                   \* time.time(), in ticks
    mon_upd_time,          \* self._mon_upd_time: <<>> no attribute, else <<t>>
    nsetdata,              \* setData calls made on the curves
    redraws                \* the redraws made with 20 rows or more: when the
                           \* time was read for the test (from), when the
                           \* timestamp was taken (at), the row count

config == <<sweep_functions, sweep_function_names, detector_function, sweep_points, swf_points,
            sweep_points_2D, af_pars, minimize_optimization, f_termination,
            x_scale>>
\* Attributes a later run reads: they outlive the run that set them.
attrs == <<xlen, ylen, TwoD_array>>
\* Attributes every run assigns before it reads them (mode, iteration,
\* complete, sweep_pts_x), and the state of the run itself.
scratch == <<mode, iteration, complete, sweep_pts_x>>
runst == <<scratch, pc, idx, dset, calls, data_object, outcome, error, nruns,
          runlog>>
\* The plot monitor and its clock.
plotst == <<now, mon_upd_time, nsetdata, redraws>>
vars == <<config, attrs, runst, station, plotst>>

S == Len(sweep_functions)
V == detector_function.nvals
NCols == S + V

IntNum(n) == [float |-> FALSE, num |-> n, den |-> 1]
Event(op, who, val) == [op |-> op, who |-> who, val |-> val]
Min(a, b) == IF a < b THEN a ELSE b

\* ------------------------------------------------------- the table (h5py)
\* dset.resize((rows, NCols)): rows kept, new rows filled with 0.
Resize(tbl, rows) ==
    [i \in 1..rows |-> IF i <= Len(tbl) THEN tbl[i] ELSE [c \in 1..NCols |-> 0]]

\* ------------------------------------------------- 2D point-set expansion
Scalars(p) == [i \in DOMAIN p |-> p[i][1]]

RECURSIVE Tile(_, _)
\* np.tile(s, n): s, n times over.
Tile(s, n) == IF n = 0 THEN <<>> ELSE s \o Tile(s, n - 1)

RECURSIVE Repeat(_, _)
\* np.repeat(s, m): each element of s, m times.
Repeat(s, m) ==
    IF s = <<>> THEN <<>> ELSE [i \in 1..m |-> Head(s)] \o Repeat(Tail(s), m)

\* np.column_stack((a, b))
ColumnStack(a, b) == [k \in 1..Min(Len(a), Len(b)) |-> <<a[k], b[k]>>]

\* A faulty expansion: the outer axis fastest.
Expand2DOuterFastest(inner, outer) ==
    ColumnStack(Repeat(Scalars(inner), Len(outer)), Tile(outer, Len(inner)))

\* The combined point set measure_2D builds from the inner and outer sets.
Expand2D(inner, outer) ==
    ColumnStack(Tile(Scalars(inner), Len(outer)), Repeat(outer, Len(inner)))

\* ------------------------------------------------ soft measurement of x
\* The value last given to sweep function `who` in this run.
LastSet(log, who) ==
    LET at == { k \in DOMAIN log : log[k].op = "set_parameter" /\ log[k].who = who }
    IN IF at = {} THEN 0
       ELSE log[CHOOSE k \in at : \A j \in at : j <= k].val[1]

\* The detector measures the system the sweep functions have set up: channel
\* c reads 2*(first parameter) + (second parameter) + (c-1).
AcquireDataPoint(log) ==
    [c \in 1..V |->
        2 * LastSet(log, 1) + (IF S >= 2 THEN LastSet(log, 2) ELSE 0) + (c - 1)]

\* A faulty order: the sweep functions set first to last.
SetOrderForward(n, i) == i

\* The i-th set_parameter call of measurement_function goes to this sweep
\* function: self.sweep_functions[::-1], with x[::-1].
SetOrder(n, i) == n - i + 1

SetParameterCalls(x) ==
    [i \in 1..Len(x) |->
        Event("set_parameter", SetOrder(Len(x), i), <<x[SetOrder(Len(x), i)]>>)]

\* Faulty row counters: one that stops growing after the first row, one that
\* leaves a gap before every row.
SoftIterationStuck(rows) == IF rows = 0 THEN 1 ELSE rows
SoftIterationSkip(rows) == rows + 2

\* self.iteration = datasetshape[0] + 1, the row count after the resize.
SoftIteration(rows) == rows + 1

\* A faulty row layout: the values before the coordinates.
SavableDataValuesFirst(x, vals) == vals \o x

\* np.append(x, vals)
SavableData(x, vals) == x \o vals

\* A faulty measurement: the size of x is looked at after the parameters
\* were set.
MeasurementFunctionSetsFirst(x, tbl, log) ==
    IF Len(x) # S
    THEN [dset |-> tbl, calls |-> log \o SetParameterCalls(x),
          raised |-> "ValueError", vals |-> <<>>, iteration |-> iteration]
    ELSE LET log1 == log \o SetParameterCalls(x)
             it == SoftIteration(Len(tbl))
             vals == AcquireDataPoint(log1)
             log2 == Append(log1, Event("acquire_data_point", 0, vals))
             t1 == Resize(tbl, it)
             t2 == [t1 EXCEPT ![it] = SavableData(x, vals)]
         IN [dset |-> t2, calls |-> log2, vals |-> vals, iteration |-> IntNum(it),
             raised |-> IF TwoD_array # <<>> THEN "IndexError" ELSE ""]

\* measurement_function(x) on table tbl with call history log.
MeasurementFunction(x, tbl, log) ==
    IF Len(x) # S
    THEN [dset |-> tbl, calls |-> log, raised |-> "ValueError", vals |-> <<>>,
          iteration |-> iteration]
    ELSE LET log1 == log \o SetParameterCalls(x)
             it == SoftIteration(Len(tbl))
             vals == AcquireDataPoint(log1)
             log2 == Append(log1, Event("acquire_data_point", 0, vals))
             t1 == Resize(tbl, it)
             t2 == [t1 EXCEPT ![it] = SavableData(x, vals)]
         IN [dset |-> t2, calls |-> log2, vals |-> vals, iteration |-> IntNum(it),
             \* update_plotmon_2D: y_ind = i / self.xlen is a float index
             raised |-> IF TwoD_array # <<>> THEN "IndexError" ELSE ""]

\* --------------------------------------------------- hard block ingestion
BlockValue(k, i, c) == 100 * k + 10 * i + c
\* np.array(get_values()).T of the k-th call: r rows of V values.
GetValues(k, r) == [i \in 1..r |-> [c \in 1..V |-> BlockValue(k, i, c)]]
NGetValues(log) == Cardinality({ j \in DOMAIN log : log[j].op = "get_values" })

\* IEEE double evaluation of int(r*((n/r + 1) - 1)) and of r*(n/r + 1) (which
\* resize truncates) differs from n and n+r exactly at these <<n, r>>, for
\* r <= 6 and n <= 40.
StartRoundsDown ==
    { <<1, 3>>, <<2, 3>>, <<4, 3>>, <<11, 3>>, <<22, 3>>, <<1, 5>>, <<2, 5>>,
      <<2, 6>>, <<4, 6>>, <<8, 6>>, <<11, 6>>, <<19, 6>>, <<22, 6>> }
RowsRoundDown ==
    { <<4, 3>>, <<11, 3>>, <<22, 3>>, <<8, 6>>, <<19, 6>>, <<22, 6>> }

\* Faulty block arithmetic: a start index one row too far, a table grown by
\* two blocks.
StartIdxNext(n, r) == n + 1
NewRowsDoubled(n, r) == n + r + r

\* start_idx = int(shape_new_data[0]*(self.iteration-1)), 0-based
StartIdx(n, r) == IF <<n, r>> \in StartRoundsDown THEN n - 1 ELSE n
\* new_datasetshape[0] = shape_new_data[0]*self.iteration
NewRows(n, r) == IF <<n, r>> \in RowsRoundDown THEN n + r - 1 ELSE n + r

\* self.dset[start_idx:, S:] = new_data
WriteValues(tbl, start, data) ==
    [i \in 1..Len(tbl) |->
        IF i <= start THEN tbl[i]
        ELSE [c \in 1..NCols |->
                IF c <= S THEN tbl[i][c]
                ELSE data[IF Len(data) = 1 THEN 1 ELSE i - start][c - S]]]

\* len(self.get_sweep_points().T)
SweepLen(points) ==
    IF Len(points[1]) = 1 THEN Len(points) ELSE Len(points[1])

\* self.dset[:, 0] = self.get_sweep_points().T, for a 1-D point set
WriteSweepColumn(tbl, points) ==
    [i \in 1..Len(tbl) |->
        [tbl[i] EXCEPT ![1] = points[IF Len(points) = 1 THEN 1 ELSE i][1]]]

\* self.get_sweep_points()[start_idx:start_idx+len_new_data:]
RelevantSweepPoints(points, start, r) ==
    SubSeq(points, start + 1, Min(start + r, Len(points)))

\* self.dset[start_idx:, 0:S] = relevant_swp_points
WriteSweepWindow(tbl, start, window) ==
    [i \in 1..Len(tbl) |->
        IF i <= start THEN tbl[i]
        ELSE [c \in 1..NCols |->
                IF c > S THEN tbl[i][c]
                ELSE IF Len(window[1]) = 1
                     THEN window[IF Len(window) = 1 THEN 1 ELSE c][1]
                     ELSE window[IF Len(window) = 1 THEN 1 ELSE i - start][c]]]

\* Whether h5py can broadcast the window onto the (count, S) selection.
WindowFits(window, count) ==
    /\ window # <<>>
    /\ IF Len(window[1]) = 1
       THEN Len(window) = 1 \/ Len(window) = S
       ELSE Len(window[1]) = S /\ (Len(window) = 1 \/ Len(window) = count)

\* measure_hard() with a detector returning r rows, on table tbl.
MeasureHard(r, tbl, log) ==
    LET data == GetValues(NGetValues(log) + 1, r)
        log1 == Append(log, Event("get_values", 0, <<r>>))
        n == Len(tbl)
        it == [float |-> TRUE, num |-> n + r, den |-> r]
        start == StartIdx(n, r)
        rows == NewRows(n, r)
        t1 == Resize(tbl, rows)
        t2 == WriteValues(t1, start, data)
        window == RelevantSweepPoints(swf_points, start, r)
        Out(t, e) == [dset |-> t, calls |-> log1, raised |-> e, iteration |-> it]
        \* update_plotmon_2D_hard: y_ind = self.iteration - 1 is a float index
        Plot(t) == Out(t, IF TwoD_array # <<>> THEN "IndexError" ELSE "")
    IN IF rows - start # r /\ r # 1 THEN Out(t1, "TypeError")
       ELSE IF swf_points = <<>> THEN Out(t2, "AttributeError")
       ELSE IF SweepLen(swf_points) = r
            THEN IF Len(swf_points[1]) = 1 /\ (Len(swf_points) = rows \/ Len(swf_points) = 1)
                 THEN Plot(WriteSweepColumn(t2, swf_points))
                 ELSE Out(t2, "TypeError")
       ELSE IF mode = "2D"
            THEN IF WindowFits(window, rows - start)
                 THEN Plot(WriteSweepWindow(t2, start, window))
                 ELSE Out(t2, "TypeError")
       ELSE Plot(t2)

\* ----------------------------------------------------- adaptive objective
\* vals < self.f_termination
BelowTermination(val, t) == val < t
\* vals > self.f_termination
AboveTermination(val, t) == val > t
\* np.multiply(-1, vals)
Invert(vals) == [c \in DOMAIN vals |-> 0 - vals[c]]
\* if len(vals) > 1: vals = vals[0]
FirstValue(vals) == <<vals[1]>>

\* float(x[i])/float(scale), for the scales used here, whose quotient is an
\* integer.
Divide(v, sc) == (v * sc.den) \div sc.num
\* elif self.x_scale != 1: ... self.x_scale[i] subscripts a number
ScalarScaleRaises == ~x_scale.iter /\ x_scale.by[1] # One
\* x after the rescaling loop over an iterable x_scale; x itself otherwise.
Rescale(x) ==
    IF x_scale.iter THEN [i \in DOMAIN x |-> Divide(x[i], x_scale.by[i])] ELSE x

\* optimization_function(x): raised is "", "StopIteration" or an error type;
\* ret is the value handed back to the optimizer.
OptimizationFunction(x, tbl, log) ==
    LET log0 == Append(log, Event("optimization_function", 0, x))
        m == IF ScalarScaleRaises
             THEN [dset |-> tbl, calls |-> log0, raised |-> "TypeError",
                   vals |-> <<>>, iteration |-> iteration]
             ELSE MeasurementFunction(Rescale(x), tbl, log0)
        Out(e, ret) ==
            [dset |-> m.dset, iteration |-> m.iteration, raised |-> e,
             calls |-> IF e = "" THEN Append(m.calls, Event("return", 0, FirstValue(ret)))
                       ELSE m.calls]
    IN IF m.raised # "" THEN Out(m.raised, <<0>>)
       ELSE IF minimize_optimization
            THEN IF f_termination = <<>> THEN Out("", m.vals)
                 \* the truth value of an array of several elements is ambiguous
                 ELSE IF V > 1 THEN Out("ValueError", <<0>>)
                 ELSE IF BelowTermination(m.vals[1], f_termination[1])
                      THEN Out("StopIteration", <<0>>)
                      ELSE Out("", m.vals)
            \* (vals > self.f_termination) is evaluated before the None test
            ELSE IF f_termination = <<>> THEN Out("TypeError", <<0>>)
                 ELSE IF V > 1 THEN Out("ValueError", <<0>>)
                 ELSE IF AboveTermination(m.vals[1], f_termination[1])
                      THEN Out("StopIteration", <<0>>)
                      ELSE Out("", Invert(m.vals))

\* ------------------------------------------------------------------- Init
\* The engine after __init__: nothing is configured yet.
Init ==
    /\ sweep_functions = <<>>
    /\ sweep_function_names = <<>>
    /\ detector_function = NoDetector
    /\ sweep_points = <<>>
    /\ swf_points = <<>>
    /\ sweep_points_2D = <<>>
    /\ af_pars = [set |-> FALSE, fn |-> "none", has |-> FALSE, kw |-> {}]
    /\ minimize_optimization = TRUE
    /\ f_termination = <<>>
    /\ x_scale = DefaultScale
    /\ xlen = 0
    /\ ylen = 0
    /\ sweep_pts_x = <<>>
    /\ TwoD_array = <<>>
    /\ mode = "none"
    /\ iteration = IntNum(0)
    /\ complete = "unset"
    /\ pc = "idle"
    /\ idx = 0
    /\ dset = <<>>
    /\ calls = <<>>
    /\ data_object = "closed"
    /\ outcome = "none"
    /\ error = ""
    /\ nruns = 0
    /\ station = FALSE
    /\ runlog = <<>>
    /\ now = 0
    /\ mon_upd_time = <<>>
    /\ nsetdata = 0
    /\ redraws = <<>>

\* ---------------------------------------------------------------- setters
\* A setter is called between runs; the table and the call history of the
\* run before it are gone by then.
Resetting(e) ==
    /\ pc = "idle"
    /\ nruns < MaxRuns
    /\ pc' = "idle" /\ idx' = 0 /\ dset' = <<>> /\ calls' = <<>>
    /\ data_object' = "closed" /\ outcome' = "none" /\ error' = e
    /\ mode' = "none" /\ iteration' = IntNum(0) /\ complete' = "unset"
    /\ sweep_pts_x' = <<>>
    /\ nruns' = nruns
    /\ runlog' = <<>>
    /\ UNCHANGED <<attrs, plotst>>

Configuring == Resetting("") /\ UNCHANGED station

\* The caller attaches a station: MC.station = station.
attach_station ==
    /\ Resetting("")
    /\ ~station
    /\ station' = TRUE
    /\ UNCHANGED config

\* str(sweep_function.name), str(sweep_function.__class__.__name__) of a
\* sweep function with sweep_control c.
Name(c) == <<"name", c>>
ClassName(c) == <<"class", c>>

set_sweep_function(c) ==
    /\ Configuring
    /\ sweep_functions' = <<c>>
    /\ sweep_function_names' = <<Name(c)>>
    /\ swf_points' = <<>>
    /\ UNCHANGED <<detector_function, sweep_points, sweep_points_2D, af_pars,
                   minimize_optimization, f_termination, x_scale>>

set_sweep_functions(fns) ==
    /\ Configuring
    /\ Len(fns) > 1
    /\ sweep_functions' = fns
    /\ sweep_function_names' = [i \in DOMAIN fns |-> ClassName(fns[i])]
    /\ swf_points' = <<>>
    /\ UNCHANGED <<detector_function, sweep_points, sweep_points_2D, af_pars,
                   minimize_optimization, f_termination, x_scale>>

\* What set_sweep_function_2D raises ("": nothing) with sweep functions fns:
\* without the attribute (<<>>), len(self.sweep_functions) itself fails.
SecondSweepFunctionError(fns) ==
    IF fns = <<>> THEN "AttributeError"
    ELSE IF Len(fns) # 1 THEN "KeyError"
    ELSE ""

\* A faulty setter: the name is appended before the number of sweep functions
\* is looked at.
set_sweep_function_2DNameFirst(c) ==
    /\ Resetting(SecondSweepFunctionError(sweep_functions))
    /\ UNCHANGED station
    /\ sweep_function_names' = Append(sweep_function_names, ClassName(c))
    /\ IF SecondSweepFunctionError(sweep_functions) # ""
       THEN UNCHANGED sweep_functions
       ELSE sweep_functions' = Append(sweep_functions, c)
    /\ UNCHANGED <<detector_function, sweep_points, swf_points, sweep_points_2D,
                   af_pars, minimize_optimization, f_termination, x_scale>>

set_sweep_function_2D(c) ==
    /\ Resetting(SecondSweepFunctionError(sweep_functions))
    /\ UNCHANGED station
    /\ IF SecondSweepFunctionError(sweep_functions) # ""
       THEN UNCHANGED <<sweep_functions, sweep_function_names>>
       ELSE /\ sweep_functions' = Append(sweep_functions, c)
            /\ sweep_function_names' = Append(sweep_function_names, ClassName(c))
    /\ UNCHANGED <<detector_function, sweep_points, swf_points, sweep_points_2D,
                   af_pars, minimize_optimization, f_termination, x_scale>>

set_detector_function(d) ==
    /\ Configuring
    /\ detector_function' = d
    /\ UNCHANGED <<sweep_functions, sweep_function_names, sweep_points, swf_points, sweep_points_2D,
                   af_pars, minimize_optimization, f_termination, x_scale>>

\* Without a sweep function the second assignment raises, the first is made.
set_sweep_points(p) ==
    /\ Resetting(IF sweep_functions = <<>> THEN "AttributeError" ELSE "")
    /\ UNCHANGED station
    /\ sweep_points' = p
    /\ swf_points' = IF sweep_functions = <<>> THEN swf_points ELSE p
    /\ UNCHANGED <<sweep_functions, sweep_function_names, detector_function, sweep_points_2D, af_pars,
                   minimize_optimization, f_termination, x_scale>>

set_sweep_points_2D(q) ==
    /\ Configuring
    /\ sweep_points_2D' = q
    /\ UNCHANGED <<sweep_functions, sweep_function_names, detector_function, sweep_points, swf_points,
                   af_pars, minimize_optimization, f_termination, x_scale>>

set_adaptive_function_parameters(fn, minimize, ft, xs) ==
    /\ Configuring
    /\ af_pars' = [set |-> TRUE, fn |-> fn, has |-> TRUE,
                    kw |-> (SuppliedKeys \ PoppedKeys) \ {"adaptive_function"}]
    /\ minimize_optimization' = minimize
    /\ f_termination' = ft
    /\ x_scale' = xs
    /\ UNCHANGED <<sweep_functions, sweep_function_names, detector_function, sweep_points, swf_points,
                   sweep_points_2D>>

\* -------------------------------------------------------------- run(mode)
\* A faulty exit: the exception leaves run() with the container as it was.
RaisedLeavesOpen(e, tbl, log) ==
    /\ pc' = "idle" /\ idx' = 0 /\ dset' = tbl /\ calls' = log
    /\ data_object' = data_object /\ outcome' = "raised" /\ error' = e
    /\ nruns' = nruns
    /\ UNCHANGED <<station, runlog, plotst>>

\* An exception of type e leaves run(): the with block closes the container.
Raised(e, tbl, log) ==
    /\ pc' = "idle" /\ idx' = 0 /\ dset' = tbl /\ calls' = log
    /\ data_object' = "closed" /\ outcome' = "raised" /\ error' = e
    /\ nruns' = nruns
    /\ UNCHANGED <<station, runlog, plotst>>

Go(next, i, tbl, log) ==
    /\ pc' = next /\ idx' = i /\ dset' = tbl /\ calls' = log
    /\ UNCHANGED <<data_object, outcome, error, nruns, station, runlog, plotst>>

Step(e, next, i, tbl, log) ==
    IF e # "" THEN Raised(e, tbl, log) ELSE Go(next, i, tbl, log)

\* A faulty save: the group is created, station or not.
SaveInstrumentSettingsAlways(st) == <<"Instrument settings">>

\* save_instrument_settings(): the group it creates in the container, or the
\* warning it logs when there is no station.
SaveInstrumentSettings(st) ==
    IF st THEN <<"Instrument settings">> ELSE <<"warning">>

\* A faulty order: the table is created before the settings are saved.
RunPreambleTableFirst(st) ==
    <<"begintime", "Experimental Data">> \o SaveInstrumentSettings(st)

\* What run() does inside the with block before it dispatches:
\* get_measurement_begintime(), save_instrument_settings(),
\* create_experimentaldata_dataset().
RunPreamble(st) ==
    <<"begintime">> \o SaveInstrumentSettings(st) \o <<"Experimental Data">>

\* run() up to the dispatch on mode: the container is opened and the table
\* created with 0 rows.  (Without sweep functions or a detector the table
\* cannot be created: that call raises AttributeError with nothing prepared
\* or acquired, and is left out.)  What an earlier run
\* left in iteration, complete and sweep_pts_x is never read: every run
\* assigns them first, so the run starts from their unassigned values.
Run(m) ==
    /\ pc = "idle"
    /\ nruns < MaxRuns
    /\ sweep_functions # <<>>
    /\ detector_function # NoDetector
    /\ mode' = m
    /\ pc' = "dispatch" /\ idx' = 0 /\ dset' = <<>> /\ calls' = <<>>
    /\ data_object' = "open" /\ outcome' = "none" /\ error' = ""
    /\ nruns' = nruns + 1
    /\ iteration' = IntNum(0) /\ complete' = "unset" /\ sweep_pts_x' = <<>>
    /\ runlog' = RunPreamble(station)
    /\ UNCHANGED <<config, attrs, station, plotst>>

\* A faulty dispatch: a mode it does not know is measured as 1D.
DispatchDefault1D(m) ==
    IF m = "2D" THEN "measure_2D"
    ELSE IF m = "adaptive" THEN "measure_soft_adaptive"
    ELSE "measure"

\* The method run() dispatches to, by self.mode.
Dispatch(m) ==
    IF m = "1D" THEN "measure"
    ELSE IF m = "2D" THEN "measure_2D"
    ELSE IF m = "adaptive" THEN "measure_soft_adaptive"
    ELSE "invalid"

DispatchInvalid ==
    /\ pc = "dispatch"
    /\ Dispatch(mode) = "invalid"
    /\ Raised("ValueError", dset, calls)
    /\ UNCHANGED <<config, attrs, scratch>>

\* measure_2D() up to its call of measure().
Measure2D ==
    /\ pc = "dispatch"
    /\ Dispatch(mode) = "measure_2D"
    /\ UNCHANGED <<sweep_functions, sweep_function_names, detector_function, sweep_points_2D, af_pars,
                   minimize_optimization, f_termination, x_scale, mode, iteration,
                   complete>>
    /\ IF swf_points = <<>>
       THEN /\ Raised("AttributeError", dset, calls)
            /\ UNCHANGED <<sweep_points, swf_points, xlen, ylen, sweep_pts_x, TwoD_array>>
       ELSE IF Len(swf_points[1]) = 2
       THEN /\ Go("measure", 0, dset, calls)
            /\ UNCHANGED <<sweep_points, swf_points, xlen, ylen, sweep_pts_x, TwoD_array>>
       ELSE /\ xlen' = Len(swf_points)
            /\ IF sweep_points_2D = <<>>
               THEN /\ Raised("AttributeError", dset, calls)
                    /\ UNCHANGED <<sweep_points, swf_points, ylen, sweep_pts_x, TwoD_array>>
               ELSE /\ ylen' = Len(sweep_points_2D)
                    /\ sweep_pts_x' = swf_points
                    /\ sweep_points' = Expand2D(swf_points, sweep_points_2D)
                    /\ swf_points' = sweep_points'
                    \* preallocate_2D_plot: np.empty(n, m) takes m for a dtype
                    /\ IF V = 1
                       THEN /\ Raised("TypeError", dset, calls)
                            /\ UNCHANGED TwoD_array
                       ELSE /\ TwoD_array' = <<ylen', xlen', V>>
                            /\ Go("measure", 0, dset, calls)

\* A faulty preparation: the sweep functions are prepared last first.
PreparesLastFirst == [i \in 1..S |-> Event("prepare", S + 1 - i, <<>>)]
\* prepare() on every sweep function, in the order of self.sweep_functions.
Prepares == [i \in 1..S |-> Event("prepare", i, <<>>)]
\* A faulty clean-up: the detector is left out.
FinishesSweepFunctionsOnly == [i \in 1..S |-> Event("finish", i, <<>>)]
Finishes == [i \in 1..S |-> Event("finish", i, <<>>)] \o <<Event("finish", 0, <<>>)>>

\* A faulty choice: the outer loop for any number of sweep functions above 1.
HardBranchLoopsAny(n) == IF n = 1 THEN "one" ELSE "two"

\* The branch measure() takes on the hard path, by len(self.sweep_functions).
HardBranch(n) == IF n = 1 THEN "one" ELSE IF n = 2 THEN "two" ELSE "unsupported"

\* measure() up to the first acquisition.
MeasureBegin ==
    /\ \/ pc = "dispatch" /\ Dispatch(mode) = "measure"
       \/ pc = "measure"
    /\ UNCHANGED <<config, xlen, ylen, sweep_pts_x, TwoD_array, mode>>
    /\ IF sweep_functions[1] # detector_function.control
       THEN /\ Raised("Exception", dset, calls)
            /\ UNCHANGED <<iteration, complete>>
       ELSE IF sweep_functions[1] = "soft"
       THEN /\ UNCHANGED <<iteration, complete>>
            /\ LET log == Prepares \o <<Event("prepare", 0, <<>>)>>
               IN Step(IF sweep_points = <<>> THEN "AttributeError" ELSE "",
                       "soft", 1, dset, log)
       ELSE /\ iteration' = IntNum(0)
            /\ IF HardBranch(S) = "one"
               THEN /\ UNCHANGED complete
                    /\ IF swf_points = <<>>
                       THEN Raised("AttributeError", dset, Prepares)
                       ELSE Go("hard1", 0, dset,
                               Append(Prepares, Event("prepare", 0, <<Len(swf_points)>>)))
               ELSE IF HardBranch(S) = "two"
               THEN LET e == IF swf_points = <<>> \/ xlen = 0 THEN "AttributeError"
                             ELSE IF Len(swf_points[1]) = 1 THEN "IndexError"
                             ELSE ""
                        log == Append(Prepares,
                                      Event("prepare", 0, <<Min(xlen, Len(swf_points))>>))
                    IN IF e # ""
                       THEN Raised(e, dset, Prepares) /\ UNCHANGED complete
                       ELSE /\ complete' = "False"
                            /\ Step(IF ylen = 0 THEN "AttributeError" ELSE "",
                                    "hard2", 0, dset, log)
               ELSE /\ Raised("Exception", dset, Prepares)
                    /\ UNCHANGED complete

\* One pass of the loop of measure_soft_static.
SoftPoint ==
    /\ pc = "soft"
    /\ LET m == MeasurementFunction(sweep_points[idx], dset, calls)
       IN /\ Step(m.raised, IF idx = Len(sweep_points) THEN "finish" ELSE "soft",
                  idx + 1, m.dset, m.calls)
          /\ iteration' = m.iteration
    /\ UNCHANGED <<config, xlen, ylen, sweep_pts_x, TwoD_array, mode, complete>>

\* The single measure_hard() of a hard run with one sweep function.
HardBlock(r) ==
    /\ pc = "hard1"
    /\ LET h == MeasureHard(r, dset, calls)
       IN /\ Step(h.raised, "finish", 0, h.dset, h.calls)
          /\ iteration' = h.iteration
    /\ UNCHANGED <<config, xlen, ylen, sweep_pts_x, TwoD_array, mode, complete>>

\* One pass of the loop over range(self.ylen) of a hard run with two sweep
\* functions.
Hard2DStep(r) ==
    /\ pc = "hard2"
    /\ UNCHANGED <<config, xlen, ylen, sweep_pts_x, TwoD_array, mode, complete>>
    /\ IF complete # "False"
       THEN /\ Go(IF idx + 1 = ylen THEN "finish" ELSE "hard2", idx + 1, dset, calls)
            /\ UNCHANGED iteration
       \* x = self.get_sweep_points()[self.iteration*self.xlen]
       ELSE IF iteration.float \/ iteration.num * xlen >= Len(swf_points)
       THEN /\ Raised("IndexError", dset, calls)
            /\ UNCHANGED iteration
       ELSE LET x == swf_points[iteration.num * xlen + 1]
                log == Append(calls, Event("set_parameter", 2, <<x[2]>>))
                h == MeasureHard(r, dset, log)
            IN /\ Step(h.raised, IF idx + 1 = ylen THEN "finish" ELSE "hard2",
                       idx + 1, h.dset, h.calls)
               /\ iteration' = h.iteration

\* The end of measure() and of run(): finish() calls, then the table is
\* read and the container closed.
MeasureFinish ==
    /\ pc = "finish"
    /\ mode # "adaptive"
    /\ pc' = "idle" /\ idx' = 0 /\ dset' = dset /\ calls' = calls \o Finishes
    /\ data_object' = "closed" /\ outcome' = "returned" /\ error' = ""
    /\ nruns' = nruns
    /\ UNCHANGED <<station, runlog, plotst>>
    /\ UNCHANGED <<config, attrs, scratch>>

\* if adaptive_function == 'Powell': adaptive_function = fmin_powell
Resolve(fn) == IF fn = "Powell" THEN "function" ELSE fn
\* type(adaptive_function) == types.FunctionType
Invocable(fn) == Resolve(fn) = "function"

\* measure_soft_adaptive() up to the call of the optimizer.
\* The keys in the mapping m.
Keys(m) == (IF m.has THEN {"adaptive_function"} ELSE {}) \cup m.kw
\* The keys a mapping can hold, sorted.
KeyOrder == <<"adaptive_function", "f_termination", "minimize", "x0", "x_scale">>
\* dict_to_ordered_tuples(self.af_pars): the keys of the mapping, sorted.
DictToOrderedTuples(m) == SelectSeq(KeyOrder, LAMBDA k : k \in Keys(m))
\* A faulty save: the optimizer is taken out of the mapping first.
SaveOptimizationSettingsAfterPop(m) ==
    <<"Optimization settings">>
        \o (IF m.set THEN DictToOrderedTuples([m EXCEPT !.has = FALSE]) ELSE <<>>)

\* save_optimization_settings(): the group it creates in the container and
\* the attributes it writes to it, one per key of the mapping.
SaveOptimizationSettings(m) ==
    <<"Optimization settings">> \o (IF m.set THEN DictToOrderedTuples(m) ELSE <<>>)

\* measure_soft_adaptive(): the settings are saved and the optimizer is
\* taken out of the mapping.
AdaptiveSave ==
    /\ pc = "dispatch"
    /\ Dispatch(mode) = "measure_soft_adaptive"
    /\ UNCHANGED <<sweep_functions, sweep_function_names, detector_function, sweep_points, swf_points,
                   sweep_points_2D, minimize_optimization, f_termination, x_scale,
                   attrs,
                   scratch>>
    /\ runlog' = runlog \o SaveOptimizationSettings(af_pars)
    /\ idx' = 0 /\ dset' = dset /\ calls' = calls /\ nruns' = nruns
    /\ UNCHANGED <<station, plotst>>
    /\ IF af_pars.set /\ af_pars.has
       THEN /\ af_pars' = [af_pars EXCEPT !.has = FALSE]
            /\ pc' = "adaptive"
            /\ UNCHANGED <<data_object, outcome, error>>
       ELSE /\ UNCHANGED af_pars
            /\ pc' = "idle" /\ data_object' = "closed" /\ outcome' = "raised"
            /\ error' = IF af_pars.set THEN "KeyError" ELSE "AttributeError"

\* measure_soft_adaptive() from the prepare() calls up to the optimizer.
AdaptiveBegin ==
    /\ pc = "adaptive"
    /\ UNCHANGED <<config, attrs, scratch>>
    /\ LET log == Prepares \o <<Event("prepare", 0, <<>>)>>
       IN Step(IF Invocable(af_pars.fn) THEN "" ELSE "Exception",
               "optimizing", 0, dset, log)

\* The optimizer calls the objective with x.
ObjectiveCall(x) ==
    /\ pc = "optimizing"
    /\ idx < MaxEvals
    /\ LET o == OptimizationFunction(x, dset, calls)
       IN /\ IF o.raised = "StopIteration"
             THEN Go("finish", idx + 1, o.dset, o.calls)
             ELSE Step(o.raised, "optimizing", idx + 1, o.dset, o.calls)
          /\ iteration' = o.iteration
    /\ UNCHANGED <<config, xlen, ylen, sweep_pts_x, TwoD_array, mode, complete>>

\* The optimizer returns.
OptimizerReturn ==
    /\ pc = "optimizing"
    /\ Go("finish", idx, dset, calls)
    /\ UNCHANGED <<config, attrs, scratch>>

\* The end of measure_soft_adaptive() and of run().
AdaptiveFinish ==
    /\ pc = "finish"
    /\ mode = "adaptive"
    /\ pc' = "idle" /\ idx' = 0 /\ dset' = dset /\ calls' = calls \o Finishes
    /\ data_object' = "closed" /\ outcome' = "returned" /\ error' = ""
    /\ nruns' = nruns
    /\ UNCHANGED <<station, runlog, plotst>>
    /\ UNCHANGED <<config, attrs, scratch>>

\* Sessions of static runs, soft and hard: any configuration, then run() in
\* mode 1D or 2D or with a mode the engine does not know.
Next ==
    \/ \E c \in Controls : set_sweep_function(c)
    \/ \E fns \in SweepFnLists : set_sweep_functions(fns)
    \/ \E c \in Controls : set_sweep_function_2D(c)
    \/ \E d \in Detectors : set_detector_function(d)
    \/ \E p \in PointSets : set_sweep_points(p)
    \/ \E q \in OuterSets : set_sweep_points_2D(q)
    \/ \E m \in StaticModes : Run(m)
    \/ DispatchInvalid
    \/ Measure2D
    \/ MeasureBegin
    \/ SoftPoint
    \/ \E r \in 1..MaxBlock : HardBlock(r)
    \/ \E r \in 1..MaxBlock : Hard2DStep(r)
    \/ MeasureFinish

Spec == Init /\ [][Next]_vars

\* Sessions of soft runs, static and adaptive, with soft sweep functions and
\* a soft detector.
SoftNext ==
    \/ set_sweep_function("soft")
    \/ set_sweep_function_2D("soft")
    \/ \E d \in SoftDetectors : set_detector_function(d)
    \/ \E p \in SoftPointSets : set_sweep_points(p)
    \/ set_sweep_points_2D(OuterSet(MaxOuter))
    \/ \E a \in AdaptivePars :
          set_adaptive_function_parameters(a.fn, a.minimize, a.ft, a.x_scale)
    \/ attach_station
    \/ \E m \in SoftModes \cup StaticModes : Run(m)
    \/ DispatchInvalid
    \/ Measure2D
    \/ MeasureBegin
    \/ SoftPoint
    \/ MeasureFinish
    \/ AdaptiveSave
    \/ AdaptiveBegin
    \/ \E x \in XCandidates(S) : ObjectiveCall(x)
    \/ OptimizerReturn
    \/ AdaptiveFinish

SpecSoft == Init /\ [][SoftNext]_vars

\* ----------------------------------------------- block ingestion, directly
\* measure_hard() called repeatedly on an engine set up for a hard run, its
\* table created and still empty: what measure() does for each outer step,
\* without the loop around it.
HardPointSets == PointSets \cup { Expand2D(InnerSet(MaxOuter), OuterSet(MaxOuter)) }

InitHard ==
    /\ sweep_functions \in { <<"hard">>, <<"hard", "hard">> }
    /\ sweep_function_names = [i \in DOMAIN sweep_functions |-> ClassName(sweep_functions[i])]
    /\ detector_function \in [control : {"hard"}, nvals : 1..2]
    /\ sweep_points \in HardPointSets
    /\ swf_points = sweep_points
    /\ sweep_points_2D = <<>>
    /\ af_pars = [set |-> FALSE, fn |-> "none", has |-> FALSE, kw |-> {}]
    /\ minimize_optimization = TRUE
    /\ f_termination = <<>>
    /\ x_scale = DefaultScale
    /\ xlen = 0
    /\ ylen = 0
    /\ sweep_pts_x = <<>>
    /\ TwoD_array = <<>>
    /\ mode \in {"1D", "2D"}
    /\ iteration = IntNum(0)
    /\ complete = "unset"
    /\ pc = "ingest"
    /\ idx = 0
    /\ dset = <<>>
    /\ calls = <<>>
    /\ data_object = "open"
    /\ outcome = "none"
    /\ error = ""
    /\ nruns = 0
    /\ station = FALSE
    /\ runlog = RunPreamble(station)
    /\ now = 0
    /\ mon_upd_time = <<>>
    /\ nsetdata = 0
    /\ redraws = <<>>

\* One call of measure_hard(), the detector returning a block of r rows.
IngestBlock(r) ==
    /\ pc = "ingest"
    /\ NGetValues(calls) < MaxIngest
    /\ LET h == MeasureHard(r, dset, calls)
       IN /\ Step(h.raised, "ingest", idx + 1, h.dset, h.calls)
          /\ iteration' = h.iteration
    /\ UNCHANGED <<config, attrs, mode, complete, sweep_pts_x>>

HardNext == \E r \in 1..MaxBlock : IngestBlock(r)

SpecHard == InitHard /\ [][HardNext]_vars

\* ------------------------------------------------------- the plot monitor
\* if self.dset.shape[0] < 20: redraw whatever the time
AlwaysRedrawBelow == 20
\* self._monitor_refresh_time = .5, in ticks
MonitorRefreshTime == 1
\* time_since_last_mon_update = 1e9, in ticks
SinceNeverUpdated == 2000000000

\* time.time() - self._mon_upd_time at time t; without the attribute the
\* except branch gives 1e9.
TimeSinceLastMonUpdate(t, upd) ==
    IF upd = <<>> THEN SinceNeverUpdated ELSE t - upd[1]

\* A faulty policy: every call redraws.
RedrawsAlways(rows, since) == TRUE

\* The test of update_plotmon on the row count and the time since the last
\* update.
Redraws(rows, since) == rows < AlwaysRedrawBelow \/ since > MonitorRefreshTime

\* The curves update_plotmon sets the data of: one for each value name and
\* sweep function name.
Curves == (1..V) \X (1..Len(sweep_function_names))

\* update_plotmon() on a table of `rows` rows; a redraw takes d ticks.
update_plotmon(rows, d) ==
    LET since == TimeSinceLastMonUpdate(now, mon_upd_time)
    IN IF Redraws(rows, since)
       THEN /\ now' = now + d
            /\ mon_upd_time' = <<now + d>>
            /\ nsetdata' = nsetdata + Cardinality(Curves)
            /\ redraws' = IF rows < AlwaysRedrawBelow THEN redraws
                          ELSE Append(redraws, [from |-> now, at |-> now + d,
                                                rows |-> rows])
       ELSE /\ now' = now
            \* the except branch has set the attribute if it was missing
            /\ mon_upd_time' = IF mon_upd_time = <<>> THEN <<now>> ELSE mon_upd_time
            /\ UNCHANGED <<nsetdata, redraws>>

\* A 1D soft run over MaxPlotRows points that has just entered its loop, on
\* an engine that never drew or last drew at time 0.
InitPlot ==
    /\ sweep_functions = <<"soft">>
    /\ sweep_function_names = <<Name("soft")>>
    /\ detector_function \in SoftDetectors
    /\ sweep_points = InnerSet(MaxPlotRows)
    /\ swf_points = sweep_points
    /\ sweep_points_2D = <<>>
    /\ af_pars = [set |-> FALSE, fn |-> "none", has |-> FALSE, kw |-> {}]
    /\ minimize_optimization = TRUE
    /\ f_termination = <<>>
    /\ x_scale = DefaultScale
    /\ xlen = 0
    /\ ylen = 0
    /\ sweep_pts_x = <<>>
    /\ TwoD_array = <<>>
    /\ mode = "1D"
    /\ iteration = IntNum(0)
    /\ complete = "unset"
    /\ pc = "soft"
    /\ idx = 1
    /\ dset = <<>>
    /\ calls = Prepares \o <<Event("prepare", 0, <<>>)>>
    /\ data_object = "open"
    /\ outcome = "none"
    /\ error = ""
    /\ nruns = 1
    /\ station = FALSE
    /\ runlog = RunPreamble(station)
    /\ now = 0
    /\ mon_upd_time \in { <<>>, <<0>> }
    /\ nsetdata = 0
    /\ redraws = <<>>

\* Time passes.
Tick ==
    /\ pc = "soft"
    /\ now < MaxClock
    /\ now' = now + 1
    /\ UNCHANGED <<config, attrs, runst, station, mon_upd_time, nsetdata, redraws>>

\* One pass of the loop of measure_soft_static, the plot monitor included;
\* the redraw, if there is one, takes d ticks.
PlotPoint(d) ==
    /\ pc = "soft"
    /\ now + d <= MaxClock
    /\ LET m == MeasurementFunction(sweep_points[idx], dset, calls)
       IN /\ pc' = IF idx = Len(sweep_points) THEN "finish" ELSE "soft"
          /\ idx' = idx + 1 /\ dset' = m.dset /\ calls' = m.calls
          /\ iteration' = m.iteration
          /\ update_plotmon(Len(m.dset), d)
    /\ UNCHANGED <<config, attrs, mode, complete, sweep_pts_x, data_object,
                   outcome, error, nruns, station, runlog>>

PlotNext ==
    \/ Tick
    \/ \E d \in 0..1 : PlotPoint(d)
    \/ MeasureFinish

SpecPlot == InitPlot /\ [][PlotNext]_vars

\* ------------------------------------------------------------ properties
StaticRun == mode \in {"1D", "2D"}
\* A static run the engine takes down the soft path.
SoftStaticRun ==
    /\ StaticRun
    /\ sweep_functions # <<>>
    /\ sweep_functions[1] = "soft"
    /\ detector_function.control = "soft"
\* A static run the engine takes down the hard path with one sweep function.
HardRun1 ==
    /\ StaticRun
    /\ sweep_functions = <<"hard">>
    /\ detector_function.control = "hard"
Acquisitions(log) == SelectSeq(log, LAMBDA e : e.op = "acquire_data_point")
Blocks(log) == SelectSeq(log, LAMBDA e : e.op = "get_values")
Returns(log) == SelectSeq(log, LAMBDA e : e.op = "return")

\* C1: a completed run in mode 1D down the soft path leaves a table of N
\* rows (N the number of sweep points) with S+V entries in each row.
C1_SoftRunShape ==
    (outcome = "returned" /\ mode = "1D" /\ SoftStaticRun) =>
        /\ Len(dset) = Len(sweep_points)
        /\ \A i \in DOMAIN dset : Len(dset[i]) = S + V

C1_Witness ==
    /\ outcome = "returned" /\ mode = "1D" /\ SoftStaticRun
    /\ sweep_points = PreCombined /\ S = 2 /\ V = 2
    /\ Len(dset) = 2 /\ Len(dset[1]) = 4

\* C2: at every moment of a soft static run, each row i written so far is
\* the i-th sweep point's coordinates followed by the values the detector
\* returned at the i-th acquisition; as the points and the acquisitions
\* already made do not change, no later point alters an earlier row.
C2_RowIsPointThenValues ==
    SoftStaticRun =>
        LET acq == Acquisitions(calls)
        IN /\ Len(acq) = Len(dset)
           /\ Len(dset) <= Len(sweep_points)
           /\ \A i \in DOMAIN dset : dset[i] = sweep_points[i] \o acq[i].val

C2_Witness ==
    /\ SoftStaticRun /\ outcome = "returned"
    /\ sweep_points = InnerSet(3)
    /\ dset = << <<0, 0>>, <<1, 2>>, <<2, 4>> >>

\* C3 as stated: in a static run, soft or hard, no step lowers the row count
\* of the table or takes it above the number of declared sweep points.
C3_RowsNeverExceedPoints ==
    [][(pc # "idle" /\ StaticRun) =>
          /\ Len(dset') >= Len(dset)
          /\ Len(dset') <= Len(sweep_points')]_vars

\* C3, amended: in a static run no step lowers the row count; down the soft
\* path the row count stays within the number of declared sweep points.
\* (Down the hard path the table gets the rows the detector returned.)
C3_RowsGrowSoftBounded ==
    [][(pc # "idle" /\ StaticRun) =>
          /\ Len(dset') >= Len(dset)
          /\ (sweep_functions[1] = "soft" => Len(dset') <= Len(sweep_points'))]_vars

C3_Witness ==
    /\ HardRun1 /\ outcome = "returned"
    /\ sweep_points = swf_points
    /\ Len(dset) > Len(sweep_points)

\* C4: k blocks of r rows each, ingested by measure_hard into a table that
\* was empty, give a table of k*r rows whose value columns hold block i in
\* rows (i-1)*r+1 .. i*r.
C4_EqualBlocksLandInOrder ==
    LET blocks == Blocks(calls)
        k == Len(blocks)
    IN \A r \in 1..MaxBlock :
         (\A i \in 1..k : blocks[i].val = <<r>>) =>
            /\ Len(dset) = k * r
            /\ \A i \in 1..k, j \in 1..r, c \in 1..V :
                  dset[(i - 1) * r + j][S + c] = BlockValue(i, j, c)

C4_Witness ==
    /\ pc = "ingest"
    /\ Len(Blocks(calls)) = 3
    /\ \A i \in 1..3 : Blocks(calls)[i].val = <<2>>
    /\ Len(dset) = 6

\* C5 as stated: a completed hard run with one sweep function whose
\* detector returns fewer rows per call than there are sweep points has
\* asked for blocks until the table holds one row per sweep point.
C5_HardRunFillsTable ==
    (outcome = "returned" /\ HardRun1 /\ Blocks(calls) # <<>>
        /\ Blocks(calls)[1].val[1] < Len(swf_points)) =>
        Len(dset) = Len(swf_points)

\* C5, amended: a completed hard run with one sweep function has called
\* get_values exactly once, and its table holds exactly the rows of that
\* one block, however many sweep points were declared.
C5_HardRunTakesOneBlock ==
    (outcome = "returned" /\ HardRun1) =>
        /\ Len(Blocks(calls)) = 1
        /\ LET r == Blocks(calls)[1].val[1]
           IN /\ Len(dset) = r
              /\ \A j \in 1..r, c \in 1..V : dset[j][S + c] = BlockValue(1, j, c)

C5_Witness ==
    /\ outcome = "returned" /\ HardRun1
    /\ Len(swf_points) = 3
    /\ Blocks(calls)[1].val = <<2>>
    /\ Len(dset) = 2

\* C6: once measure_2D has expanded a 1-component inner set of length m
\* with an outer set of length n, the sweep points are the m*n pairs whose
\* k-th entry (from 0) is (inner[k mod m], outer[k div m]).
C6_ExpansionInnerFastest ==
    sweep_pts_x # <<>> =>
        LET m == Len(sweep_pts_x)
            n == Len(sweep_points_2D)
        IN /\ Len(sweep_points) = m * n
           /\ swf_points = sweep_points
           /\ \A k \in 0..(m * n - 1) :
                 sweep_points[k + 1] =
                     <<sweep_pts_x[(k % m) + 1][1], sweep_points_2D[(k \div m) + 1]>>

C6_Witness ==
    /\ sweep_pts_x = InnerSet(2)
    /\ sweep_points_2D = OuterSet(2)
    /\ sweep_points = << <<0, 10>>, <<1, 10>>, <<0, 20>>, <<1, 20>> >>

\* C7: with 2 sweep functions, every acquire_data_point of a soft run comes
\* right after a set_parameter on the first sweep function, which comes
\* right after a set_parameter on the second one.
C7_OuterSetBeforeInner ==
    (S = 2 /\ mode \in SoftModes) =>
        \A k \in DOMAIN calls :
            calls[k].op = "acquire_data_point" =>
                /\ k > 2
                /\ calls[k - 1].op = "set_parameter" /\ calls[k - 1].who = 1
                /\ calls[k - 2].op = "set_parameter" /\ calls[k - 2].who = 2

C7_Witness ==
    /\ S = 2 /\ mode = "adaptive" /\ outcome = "returned"
    /\ Len(Acquisitions(calls)) = 2

\* An adaptive run that has ended, by returning or by raising.
AdaptiveRunEnded == mode = "adaptive" /\ pc = "idle" /\ outcome # "none"
\* The value columns of the last row of the table.
LastRowValues == SubSeq(dset[Len(dset)], S + 1, S + V)

\* C8: an adaptive minimize run with threshold t in which a measurement
\* came out below t has returned normally; that measurement is the only one
\* below t, it is the last one made, and its values are the last row.
C8_MinimizeStopsBelowThreshold ==
    (AdaptiveRunEnded /\ minimize_optimization /\ f_termination # <<>>) =>
        LET acq == Acquisitions(calls)
            below == { i \in DOMAIN acq : acq[i].val[1] < f_termination[1] }
        IN below # {} =>
              /\ outcome = "returned"
              /\ below = { Len(acq) }
              /\ Len(dset) = Len(acq)
              /\ LastRowValues = acq[Len(acq)].val

\* C9: an adaptive maximize run with threshold t in which a measurement
\* came out above t (as measured, not negated) has returned normally with
\* that measurement its last; every measurement not above t handed the
\* optimizer the negated measured value.
C9_MaximizeStopsAboveThreshold ==
    (AdaptiveRunEnded /\ ~minimize_optimization /\ f_termination # <<>>) =>
        LET acq == Acquisitions(calls)
            ret == Returns(calls)
            above == { i \in DOMAIN acq : acq[i].val[1] > f_termination[1] }
        IN /\ above # {} => (outcome = "returned" /\ above = { Len(acq) })
           /\ \A i \in DOMAIN acq \ above :
                 i \in DOMAIN ret /\ ret[i].val[1] = 0 - acq[i].val[1]

\* C10: in an adaptive run without a threshold, minimizing or maximizing,
\* every measurement the objective made was followed by its return to the
\* optimizer, and the optimizer alone ended the run.
C10_NoThresholdNeverStopsOrRaises ==
    (mode = "adaptive" /\ f_termination = <<>>) =>
        /\ Len(Returns(calls)) = Len(Acquisitions(calls))
        /\ (Acquisitions(calls) # <<>> => outcome # "raised")

\* A run that has ended, by returning or by raising.
RunEnded == pc = "idle" /\ outcome # "none"
\* The run got into measure(): it prepared something, or measure() itself
\* refused the configuration.
EnteredMeasure == calls # <<>> \/ error = "Exception"
\* How many times `op` was called on `who` (0: the detector).
NCalls(log, op, who) ==
    Cardinality({ k \in DOMAIN log : log[k].op = op /\ log[k].who = who })
FinishedOnce(log) == \A w \in 0..S : NCalls(log, "finish", w) = 1

\* C11: a static run that entered measure() and has ended, however it
\* ended, has called finish() exactly once on every sweep function and on
\* the detector.
C11_FinishOnEveryExit ==
    (StaticRun /\ RunEnded /\ EnteredMeasure) => FinishedOnce(calls)

\* C12: an adaptive run that returned, the optimizer having returned or the
\* objective having raised the termination signal, has called finish()
\* exactly once on every sweep function and on the detector, each after the
\* last set_parameter and the last acquisition.
C12_AdaptiveFinishOnce ==
    (mode = "adaptive" /\ outcome = "returned") =>
        /\ FinishedOnce(calls)
        /\ \A j, k \in DOMAIN calls :
              (calls[j].op = "finish"
                  /\ calls[k].op \in {"set_parameter", "acquire_data_point"}) => k < j

C12_Witness ==
    /\ mode = "adaptive" /\ outcome = "returned"
    /\ minimize_optimization /\ f_termination = <<2>> /\ V = 1
    /\ Len(Acquisitions(calls)) = 2
    /\ Acquisitions(calls)[1].val[1] >= 2
    /\ Acquisitions(calls)[2].val[1] < 2
    /\ calls[Len(calls)].op = "finish"

\* The run was aborted by a configuration error: an unrecognized mode, or
\* the Exception of measure() or of measure_soft_adaptive().
ConfigurationError ==
    /\ RunEnded /\ outcome = "raised"
    /\ \/ error = "Exception"
       \/ error = "ValueError" /\ mode \notin {"1D", "2D", "adaptive"}

\* C13: when a configuration error has aborted a run, nothing was acquired,
\* every sweep function and detector that was prepared has received
\* finish(), and the container is closed.
C13_ConfigurationErrorCleansUp ==
    ConfigurationError =>
        /\ Acquisitions(calls) = <<>> /\ Blocks(calls) = <<>>
        /\ \A w \in 0..S :
              NCalls(calls, "prepare", w) > 0 => NCalls(calls, "finish", w) > 0
        /\ data_object = "closed"

\* C14: whenever run() has returned or raised, the container it opened is
\* closed.
C14_ContainerClosedOnExit == RunEnded => data_object = "closed"

C14_Witness ==
    /\ RunEnded /\ outcome = "raised" /\ error = "IndexError"
    /\ Acquisitions(calls) # <<>>
    /\ data_object = "closed"

\* Some sweep function's control mode differs from the detector's.
ControlMismatch ==
    \E i \in DOMAIN sweep_functions : sweep_functions[i] # detector_function.control

\* C15: in a static run whose sweep functions and detector do not all have
\* the same control mode, prepare() and set_parameter() are never called,
\* and the run ends with the configuration error of measure().
C15_AnyMismatchAborts ==
    (StaticRun /\ ControlMismatch) =>
        /\ \A k \in DOMAIN calls : calls[k].op \notin {"prepare", "set_parameter"}
        /\ (RunEnded /\ EnteredMeasure => error = "Exception")

C17_UnknownModeRefused ==
    mode \notin {"none", "1D", "2D", "adaptive"} =>
        /\ calls = <<>>
        /\ dset = <<>>
        /\ (RunEnded => outcome = "raised" /\ error = "ValueError")

C17_Witness ==
    /\ mode = "3D" /\ RunEnded /\ error = "ValueError"
    /\ sweep_points # <<>>
    /\ calls = <<>> /\ dset = <<>>

\* An adaptive run that got past the lookup of its optimizer and has ended.
OptimizerLookedUp == AdaptiveRunEnded /\ calls # <<>>

\* C18: an adaptive run whose optimizer is 'Powell' or any callable is not
\* refused as unrecognized; one whose optimizer is not callable is refused,
\* with nothing acquired.
C18_AnyCallableIsInvoked ==
    OptimizerLookedUp =>
        /\ af_pars.fn \in {"Powell", "function", "callable"} => error # "Exception"
        /\ af_pars.fn = "string" => error = "Exception" /\ Acquisitions(calls) = <<>>

\* The inputs the optimizer gave the objective, in order.
ObjectiveInputs(log) == SelectSeq(log, LAMBDA e : e.op = "optimization_function")
\* x with coordinate i divided by scale[i] for a vector scale, by the scale
\* itself for a scalar one.
ScaledAsIntended(x) ==
    [i \in DOMAIN x |->
        Divide(x[i], IF x_scale.iter THEN x_scale.by[i] ELSE x_scale.by[1])]

\* C19: in an adaptive run every call of the objective has measured, and
\* written as the coordinates of its row, its input divided by the scale:
\* coordinate by coordinate for a vector scale, by the one factor for a
\* scalar scale, unchanged for the default 1; the rescaling never raises.
C19_EveryScaleRescales ==
    mode = "adaptive" =>
        LET inputs == ObjectiveInputs(calls)
        IN /\ Len(dset) = Len(inputs)
           /\ \A i \in DOMAIN inputs :
                 SubSeq(dset[i], 1, S) = ScaledAsIntended(inputs[i].val)

\* The first value of a measurement as the optimizer is to see it.
FirstAsObjective(vals) == <<IF minimize_optimization THEN vals[1] ELSE 0 - vals[1]>>
\* The first value of a measurement is past the configured threshold.
FirstMeetsThreshold(vals) ==
    /\ f_termination # <<>>
    /\ IF minimize_optimization THEN vals[1] < f_termination[1]
                                ELSE vals[1] > f_termination[1]

\* C20: in an adaptive run whose detector yields several values, every
\* measurement is answered to the optimizer with its first value, negated
\* when maximizing, with a threshold configured or not; the only measurement
\* left unanswered is a last one that ends the run at the threshold, and
\* the objective raises nothing else.
C20_FirstValueIsObjective ==
    (mode = "adaptive" /\ V > 1) =>
        LET acq == Acquisitions(calls)
            ret == Returns(calls)
        IN \A i \in DOMAIN acq :
              IF i \in DOMAIN ret
              THEN ret[i].val = FirstAsObjective(acq[i].val)
              ELSE i = Len(acq) /\ error = "" /\ FirstMeetsThreshold(acq[i].val)

\* A run has started, and may have ended since.
RunStarted == mode # "none"
\* Where entry e stands in log (0: nowhere).
Position(log, e) ==
    IF \E k \in DOMAIN log : log[k] = e
    THEN CHOOSE k \in DOMAIN log : log[k] = e /\ \A j \in 1..(k - 1) : log[j] # e
    ELSE 0
\* The container holds the group of the instrument settings.
HoldsSnapshot == Position(runlog, "Instrument settings") > 0

RowAt(p) ==
    p \o [c \in 1..V |-> 2 * p[1] + (IF S >= 2 THEN p[2] ELSE 0) + (c - 1)]

\* C22: a run of an engine without a station creates no group of instrument
\* settings and goes on to create the table; the missing station is no
\* error, and a soft 1D run returns the table its configuration alone
\* determines, one row per sweep point, as it does with a station.
C22_NoStationSkipsSnapshot ==
    /\ (~station /\ RunStarted) =>
          /\ ~HoldsSnapshot
          /\ SubSeq(runlog, 1, 3) = <<"begintime", "warning", "Experimental Data">>
    /\ (outcome = "returned" /\ mode = "1D" /\ SoftStaticRun) =>
          dset = [i \in DOMAIN sweep_points |-> RowAt(sweep_points[i])]

C22_Witness ==
    /\ ~station /\ outcome = "returned" /\ mode = "1D" /\ SoftStaticRun
    /\ ~HoldsSnapshot
    /\ sweep_points = InnerSet(3) /\ V = 2
    /\ dset = << <<0, 0, 1>>, <<1, 2, 3>>, <<2, 4, 5>> >>

\* C23: a call of set_sweep_function_2D with exactly one sweep function
\* configured raises nothing and leaves two, the new one last, in the list
\* and in the name list; with none or with two or more configured it raises
\* its configuration error, the KeyError, and leaves both lists as they
\* were.
C23_SecondSweepFunctionNeedsOne ==
    [][\A c \in Controls :
          set_sweep_function_2D(c) =>
              IF Len(sweep_functions) = 1
              THEN /\ error' = ""
                   /\ sweep_functions' = <<sweep_functions[1], c>>
                   /\ sweep_function_names' =
                          <<sweep_function_names[1], ClassName(c)>>
              ELSE /\ error' = "KeyError"
                   /\ UNCHANGED <<sweep_functions, sweep_function_names>>]_vars

\* The set_parameter calls of this run, in order.
Settings(log) == SelectSeq(log, LAMBDA e : e.op = "set_parameter")
\* The coordinates set for the i-th measurement of a soft run: the value
\* given to each sweep function in the i-th round of set_parameter calls.
CoordinatesSet(log, i) ==
    [w \in 1..S |->
        LET round == SubSeq(Settings(log), (i - 1) * S + 1, i * S)
        IN round[CHOOSE k \in 1..S : round[k].who = w].val[1]]

\* C24: at every moment of an adaptive run the table has one row for every
\* call of the objective made so far, and row i holds the coordinates set
\* for the i-th call followed by the values the detector returned for it, as
\* returned (not negated).
C24_OneRowPerObjectiveCall ==
    mode = "adaptive" =>
        LET inputs == ObjectiveInputs(calls)
            acq == Acquisitions(calls)
        IN /\ Len(dset) = Len(inputs)
           /\ Len(acq) = Len(inputs)
           /\ \A i \in DOMAIN dset :
                 dset[i] = CoordinatesSet(calls, i) \o acq[i].val

\* A static soft run over a point set that fits its sweep functions: as
\* many coordinates as sweep functions (two in a 2D run), the set the first
\* sweep function carries.
SoftRunOverPoints ==
    /\ SoftStaticRun
    /\ sweep_points # <<>>
    /\ swf_points = sweep_points
    /\ Len(sweep_points[1]) = S
    /\ (mode = "2D" => S = 2)

\* C25: a static soft run, 1D or 2D, over N sweep points has, when it ends,
\* returned after exactly N acquire_data_point calls, the i-th made with the
\* coordinates of the i-th sweep point set; the engine ends no such run
\* earlier.
C25_SoftRunAcquiresEveryPoint ==
    (RunEnded /\ SoftRunOverPoints) =>
        /\ outcome = "returned"
        /\ Len(Acquisitions(calls)) = Len(sweep_points)
        /\ \A i \in DOMAIN sweep_points : CoordinatesSet(calls, i) = sweep_points[i]

\* A 2D run down the hard path with two sweep functions, whose inner and
\* outer point sets measure_2D has combined (xlen, ylen are their lengths).
HardRun2 ==
    /\ mode = "2D"
    /\ sweep_functions = <<"hard", "hard">>
    /\ detector_function.control = "hard"
    /\ sweep_pts_x # <<>>
\* Every block the detector returned so far has xlen rows.
BlocksOfInnerLength == \A i \in DOMAIN Blocks(calls) : Blocks(calls)[i].val = <<xlen>>
\* The places in log of the calls of op.
Places(log, op) == { k \in DOMAIN log : log[k].op = op }

\* C26: a hard 2D run whose detector returns xlen rows per block has, when
\* it ends, returned after ylen blocks; the outer sweep function was set
\* exactly ylen times, to the j-th outer value before the j-th block and
\* after the block before it; the inner sweep function was never set; the
\* detector was prepared once, with the xlen inner points.
C26_OuterSetOncePerBlock ==
    (RunEnded /\ HardRun2 /\ BlocksOfInnerLength) =>
        /\ outcome = "returned"
        /\ Len(Blocks(calls)) = ylen
        /\ Len(Settings(calls)) = ylen
        /\ \A j \in DOMAIN Settings(calls) :
              /\ Settings(calls)[j].who = 2
              /\ Settings(calls)[j].val = <<sweep_points_2D[j]>>
        /\ \A k \in Places(calls, "get_values") :
              k > 1 /\ calls[k - 1].op = "set_parameter"
        /\ NCalls(calls, "prepare", 0) = 1
        /\ \A k \in Places(calls, "prepare") :
              calls[k].who = 0 => calls[k].val = <<xlen>>

\* The value columns of a row.
ValuesOf(row) == SubSeq(row, S + 1, S + V)

\* C27: a call of measure_hard whose detector returns r rows, on a table of
\* n rows, n a multiple of r or not, leaves a table of n+r rows whose first
\* n rows have the values they had and whose last r rows have the values of
\* the block.
C27_BlockAppendedAfterAnyRows ==
    [][\A r \in 1..MaxBlock :
          IngestBlock(r) =>
              LET n == Len(dset)
                  k == NGetValues(calls) + 1
              IN /\ Len(dset') = n + r
                 /\ \A i \in 1..n : ValuesOf(dset'[i]) = ValuesOf(dset[i])
                 /\ \A j \in 1..r :
                       ValuesOf(dset'[n + j]) = [c \in 1..V |-> BlockValue(k, j, c)]]_vars

\* The sweep columns of a row.
PointOf(row) == SubSeq(row, 1, S)
\* A 1D hard run: one sweep function, a 1-component point set.
Hard1DGeometry == mode = "1D" /\ S = 1 /\ Len(swf_points[1]) = 1
\* A 2D hard run: two sweep functions, a combined 2-component point set.
Hard2DGeometry == mode = "2D" /\ S = 2 /\ Len(swf_points[1]) = 2

\* What C28 says of one call of measure_hard that takes a block of r rows.
SweepColumnsAfterBlock(r) ==
    LET n == Len(dset)
        start == StartIdx(n, r)
    IN /\ (Hard1DGeometry /\ Len(swf_points) = r) =>
              /\ error' = ""
              /\ [i \in DOMAIN dset' |-> PointOf(dset'[i])] = swf_points
       /\ (Hard2DGeometry /\ start + r <= Len(swf_points)) =>
              /\ error' = ""
              /\ \A j \in 1..r : PointOf(dset'[start + j]) = swf_points[start + j]
       /\ (Hard1DGeometry /\ Len(swf_points) # r) =>
              /\ \A i \in 1..n : PointOf(dset'[i]) = PointOf(dset[i])
              /\ \A i \in (n + 1)..Len(dset') : PointOf(dset'[i]) = <<0>>

\* C28: after measure_hard has taken a block of r rows at start index s, in
\* a 1D run whose point set has exactly r points the sweep column is the
\* point set; in a 2D run the sweep columns of rows [s, s+r) are entries
\* [s, s+r) of the combined point set; in a 1D run whose point set has
\* another length the sweep column is not written.
C28_SweepColumnsFollowGeometry ==
    [][\A r \in 1..MaxBlock : IngestBlock(r) => SweepColumnsAfterBlock(r)]_vars

\* The run is in, or has left, the outer loop of the hard path with two
\* sweep functions: the loop assigns self.complete before its first pass.
InOuterLoop == complete # "unset"

\* C29: in a hard run with two sweep functions, once the table has as many
\* rows as there are sweep points, or more, the run is marked complete.
C29_CompleteOnceRowsReachTotal ==
    (InOuterLoop /\ dset # <<>> /\ Len(dset) >= Len(swf_points)) =>
        complete = "True"

\* update_plotmon was called in this step: a row was appended.
PlotmonCalled == Len(dset') = Len(dset) + 1
\* This step redrew: the data of every curve was set once.
Redrawn == nsetdata' = nsetdata + V * S

NaN == 0 - 1
\* The visualization buffer: self.TwoD_array[y][x][c].  Every write to it
\* fails on its index before it stores anything, so it holds what
\* preallocate_2D_plot put there.
Buffer ==
    IF TwoD_array = <<>> THEN <<>>
    ELSE [y \in 1..TwoD_array[1] |->
            [x \in 1..TwoD_array[2] |-> [c \in 1..TwoD_array[3] |-> NaN]]]
\* Rows (j-1)*xlen+1 .. j*xlen of the value columns of the table.
BlockRows(j) == [x \in 1..xlen |-> ValuesOf(dset[(j - 1) * xlen + x])]

\* C31: in a hard 2D run whose blocks have xlen rows, once j blocks are in
\* the table the buffer has ylen rows of xlen entries and its rows 1..j hold
\* the values of blocks 1..j.
C31_BufferRowPerBlock ==
    (HardRun2 /\ BlocksOfInnerLength) =>
        \A j \in DOMAIN Blocks(calls) :
            /\ Len(Buffer) = ylen
            /\ Len(Buffer[j]) = xlen
            /\ Buffer[j] = BlockRows(j)

\* measure_2D built the buffer in this run: it expanded the points and
\* preallocate_2D_plot gave the buffer the shape of this run.
BufferBuiltThisRun == sweep_pts_x # <<>> /\ TwoD_array = <<ylen, xlen, V>>
\* measurement_function has acquired in this run.
Acquired == Acquisitions(calls) # <<>>

\* C32: a 2D run that acquires with a buffer has built that buffer itself,
\* with the shape (ylen, xlen) of this run, and a run of mode 1D or adaptive
\* acquires with no buffer of an earlier run for update_plotmon_2D to touch.
C32_BufferRebuiltPerRun ==
    /\ (mode = "2D" /\ Acquired /\ TwoD_array # <<>>) => BufferBuiltThisRun
    /\ (mode \in {"1D", "adaptive"} /\ Acquired) => TwoD_array = <<>>

\* A 2D run that measure_2D handed to measure() as it found it: the points
\* had 2 components each, nothing was expanded.
Combined2DRun ==
    /\ mode = "2D"
    /\ sweep_pts_x = <<>>
    /\ swf_points # <<>>
    /\ Len(swf_points[1]) = 2

\* C33: a soft 2D run over N points of 2 components each, for two sweep
\* functions, has when it ends returned after exactly N acquisitions, with a
\* table of N rows.
C33_CombinedPointsRunAsGiven ==
    (Combined2DRun /\ SoftRunOverPoints /\ RunEnded) =>
        /\ outcome = "returned"
        /\ Len(Acquisitions(calls)) = Len(sweep_points)
        /\ Len(dset) = Len(sweep_points)

\* The attributes of the container's group 'Optimization settings'.
PersistedKeys ==
    LET g == Position(runlog, "Optimization settings")
    IN IF g = 0 THEN {} ELSE { runlog[k] : k \in (g + 1)..Len(runlog) }
\* measure_soft_adaptive() is about to start.
AdaptiveStarts == pc = "dispatch" /\ mode = "adaptive"

\* C34: the step that starts an adaptive run writes to the group
\* 'Optimization settings' exactly the keys the mapping holds at that moment,
\* adaptive_function among them when the mapping has it, and none of
\* x_scale, minimize and f_termination; it calls nothing on a sweep function
\* or the detector, and no such call is made in an adaptive run before the
\* group is in the container.
C34_SettingsPersistedAtStart ==
    [][/\ AdaptiveStarts =>
            /\ PersistedKeys' = Keys(af_pars)
            /\ PersistedKeys' \cap {"x_scale", "minimize", "f_termination"} = {}
            /\ af_pars.has => "adaptive_function" \in PersistedKeys'
            /\ calls' = <<>>
       /\ (mode = "adaptive" /\ calls = <<>> /\ calls' # <<>>) =>
            Position(runlog, "Optimization settings") > 0
      ]_vars
\* An adaptive run has persisted adaptive_function and the optimizer's own
\* keyword and has prepared nothing yet.
C34_Witness ==
    /\ mode = "adaptive"
    /\ pc = "adaptive"
    /\ PersistedKeys = {"adaptive_function", "x0"}
    /\ calls = <<>>

\* C35: an adaptive run that has ended on an engine whose adaptive parameters
\* were set holds the mapping the setter left, adaptive_function included,
\* and did not fail to find adaptive_function in it.
C35_RunLeavesMappingUnchanged ==
    (AdaptiveRunEnded /\ af_pars.set) =>
        /\ Keys(af_pars) = SuppliedKeys \ PoppedKeys
        /\ error # "KeyError"

\* A run that ended by returning.
CompletedRun == RunEnded /\ outcome = "returned"
\* The calls that move a parameter or take data.
MeasuringOps == {"set_parameter", "acquire_data_point", "get_values"}

\* C36: a run that returned, static or adaptive, began with prepare() on
\* sweep functions 1..S in that order and then on the detector, prepared
\* nothing a second time, and made no set_parameter, acquire_data_point or
\* get_values call before those S+1 calls or after a finish() call.
C36_PreparedOnceBeforeMeasuring ==
    CompletedRun =>
        /\ Len(calls) >= S + 1
        /\ \A i \in 1..S : calls[i].op = "prepare" /\ calls[i].who = i
        /\ calls[S + 1].op = "prepare" /\ calls[S + 1].who = 0
        /\ \A w \in 0..S : NCalls(calls, "prepare", w) = 1
        /\ \A k \in Places(calls, "finish") :
               \A j \in (k + 1)..Len(calls) : calls[j].op \notin MeasuringOps
\* An adaptive run over two sweep functions returned after measuring.
C36_Witness ==
    /\ CompletedRun
    /\ mode = "adaptive"
    /\ S = 2
    /\ Acquired
    /\ Places(calls, "set_parameter") # {}

\* The points the soft loop iterates are those get_sweep_points() returns.
PointSetsAgree == sweep_points = swf_points

\* C37: on an engine with a sweep function whose two point sets agree, a
\* call of a configuration setter leaves them agreeing.
C37_SettersKeepPointSetsAgreeing ==
    [][(mode' = "none" /\ sweep_functions # <<>> /\ PointSetsAgree) =>
           PointSetsAgree']_vars

\* C38: the list of sweep-function names is as long as the list of sweep
\* functions, so the plot monitor has one curve for each pair of a value name
\* and a sweep function: S*V curves.
C38_OneNamePerSweepFunction ==
    /\ Len(sweep_function_names) = Len(sweep_functions)
    /\ Cardinality(Curves) = S * V
\* A second sweep function was refused on an engine that has two, with a
\* detector of two value names.
C38_Witness ==
    /\ mode = "none"
    /\ error = "KeyError"
    /\ Len(sweep_functions) = 2
    /\ Len(sweep_function_names) = 2
    /\ V = 2
    /\ Cardinality(Curves) = 4

\* Points whose number of components is not the number of sweep functions.
MismatchedPoints ==
    XCandidates(S + 1) \cup (IF S > 1 THEN XCandidates(S - 1) ELSE {})
\* A static run ended in measurement_function's refusal of its point.
PointRefused == StaticRun /\ RunEnded /\ error = "ValueError"

\* C39: on an engine with sweep functions, measurement_function called with
\* a point of another number of components raises ValueError and returns the
\* table and the call history as they were, whatever rows the table holds;
\* a static run that it ended this way has made no set_parameter and no
\* acquire_data_point call and has an empty table.
C39_WrongSizePointRefusedFirst ==
    /\ sweep_functions # <<>> =>
           \A x \in MismatchedPoints :
               LET m == MeasurementFunction(x, dset, calls)
               IN /\ m.raised = "ValueError"
                  /\ m.dset = dset
                  /\ m.calls = calls
    /\ PointRefused =>
           /\ Places(calls, "set_parameter") = {}
           /\ ~Acquired
           /\ dset = <<>>
\* A soft run over points of 2 components with one sweep function was
\* refused at its first point, after the prepare() calls.
C39_Witness ==
    /\ PointRefused
    /\ S = 1
    /\ Len(sweep_points[1]) = 2
    /\ calls = Prepares \o <<Event("prepare", 0, <<>>)>>

=============================================================================
